---------------------------- MODULE Spec2Model ----------------------------
(***************************************************************************)
(* Model of package shell (src/shell/shell.go): the executor registry, the *)
(* three executor strategies (Exec, Bash, Builtin), execRunner and the two *)
(* logOutput goroutines that drain the child's stdout and stderr.          *)
(*                                                                         *)
(* Bytes are the strings "a", "b", ... with "LF" for '\n' and "CR" for     *)
(* '\r'; texts are sequences of bytes.  "nil" is Go's nil.                 *)
(***************************************************************************)
EXTENDS Naturals, Sequences, FiniteSets, TLC

\* ------------------------------------------------------------- bounds
\* Size of the bufio.Reader buffer of a pump (4096 in the Go library, scaled).
BufSize == 4
\* Capacity of an OS pipe in bytes (65536 on Linux, scaled).
PipeCap == 4
\* Longest sequence of writes a child process performs.
MaxWrites == 2
\* Most read errors (other than end-of-stream) injected into one Run.
MaxFaults == 1
\* Longest registration list tried by the registry specification.
MaxRegs == 4
\* Most Stop calls made in one behaviour.
MaxStops == 1

Runs == {1, 2}
\* Run slots whose caller is active in Spec (one blocking caller).
Callers == {1}

Streams == {"stdout", "stderr"}

\* ------------------------------------------------------------- registry
Executors == {"Exec", "Bash", "Builtin"}

\* Name() of each executor type.
Name(e) ==
  CASE e = "Exec" -> "exec"
    [] e = "Bash" -> "bash"
    [] e = "Builtin" -> "builtin"

\* The registrations performed by init(), in order.
InitList == <<"Exec", "Bash", "Builtin">>

\* Names a caller may ask GetExecutor for ("zsh" is never registered).
Methods == {"exec", "bash", "builtin", "zsh"}

\* ------------------------------------------------------------- inputs
\* Command lines, by what the tokenizer and the search path make of them.
CommandLines == {"prog a", "nosuch", "", "'"}

\* shlex.Split: the token vector, or an error on unbalanced quoting.
Split(line) ==
  CASE line = "prog a" -> [err |-> "nil", toks |-> <<"prog", "a">>]
    [] line = "nosuch" -> [err |-> "nil", toks |-> <<"nosuch">>]
    [] line = "" -> [err |-> "nil", toks |-> <<>>]
    [] line = "'" -> [err |-> "EOF found when expecting closing quote", toks |-> <<>>]

\* Executables that c.Start can find: the programs on the search path, a
\* shell that getShell found there, and the program's own binary.
Startable == {"prog", "bash", "sh", "self"}

\* A line longer than the pump's buffer, of such a length that the '\r' of
\* its "\r\n" is the last byte of a full buffer.
LongText == [i \in 1..(2 * BufSize - 1) |-> IF i = 1 THEN "b" ELSE "c"]

\* What one write of the child may carry: a short line ending in "\n", or
\* a long line ending in "\r\n".
Chunks == { <<"a", "LF">>, LongText \o <<"CR", "LF">> }

Writes == Streams \X Chunks

ExitCodes == {0, 1}

RECURSIVE SeqsUpTo(_, _)
SeqsUpTo(S, n) ==
  IF n = 0 THEN {<<>>}
  ELSE LET shorter == SeqsUpTo(S, n - 1)
       IN  shorter \cup {Append(q, x) : q \in {p \in shorter : Len(p) = n - 1}, x \in S}

\* The registration lists an init() could hold: the real one is InitList; a
\* list naming an executor twice is the coding mistake register guards
\* against.
RegLists == SeqsUpTo(Executors, MaxRegs)

\* The next write a child may make after the writes `done`: any chunk on
\* either stream where the line names a runnable program; a shell reports
\* an unknown command or a syntax error with one line on its stderr; an
\* empty or unrunnable line writes nothing.
ChildWrites(e, a, done) ==
  IF e = "Bash" /\ a.line = "nosuch"
  THEN IF done = <<>> THEN {<<"stderr", <<"n", "LF">>>>} ELSE {}
  ELSE IF e = "Bash" /\ a.line = "'"
  THEN IF done = <<>> THEN {<<"stderr", <<"q", "LF">>>>} ELSE {}
  ELSE IF a.line = "prog a" /\ Len(done) < MaxWrites THEN Writes
  ELSE {}

\* The child may exit after the writes `done`.
ChildMayExit(e, a, done) ==
  (e = "Bash" /\ a.line \in {"nosuch", "'"}) => done # <<>>

\* The exit statuses the child may end with: a shell ends 127 on an unknown
\* command, 2 on a syntax error and 0 on an empty line.
ChildExits(e, a) ==
  IF e = "Bash" /\ a.line = "nosuch" THEN {127}
  ELSE IF e = "Bash" /\ a.line = "'" THEN {2}
  ELSE IF e = "Bash" /\ a.line = "" THEN {0}
  ELSE ExitCodes

NoArg == [method |-> "", line |-> "", bufferr |-> FALSE]

\* The arguments a caller may pass.
Args == [method : Methods, line : CommandLines, bufferr : BOOLEAN]

\* The arguments of callers that run at the same time: commands whose
\* child writes one line at most.
ConcArgs == [method : Methods, line : {"nosuch", ""}, bufferr : BOOLEAN]

\* ------------------------------------------------------------- state
VARIABLES
  shells,    \* the registry: name -> executor
  regs,      \* registrations init() has still to make
  panicked,  \* register panicked: the program is dead
  stops,     \* the Stop calls made so far: what each returned, and during which Runs
  arg,       \* per run: the caller's arguments
  ex,        \* per run: what GetExecutor returned ("none" before the lookup)
  cmd,       \* per run: argv of the exec.Cmd built (<<>> when none was)
  pc,        \* per run: where the calling goroutine is
  started,   \* per run: c.Start() succeeded
  wrote,     \* per run: the writes the child has issued, in order
  todo,      \* per run: the bytes of its last write still to go into the pipe
  status,    \* per run: the child's exit status
  pipe,      \* per run, stream: bytes in the OS pipe
  wopen,     \* per run, stream: some write end of the pipe is open
  exited,    \* per run: the child has exited
  ppc,       \* per run, stream: where the logOutput goroutine is
  rbuf,      \* per run, stream: unread bytes of the bufio.Reader
  rerr,      \* per run, stream: the reader's pending error
  cur,       \* per run, stream: the line ReadLine returned last
  wg,        \* per run: the WaitGroup counter
  mut,       \* per run: holder of the mutex ("free" when unlocked)
  buff,      \* per run: the bytes.Buffer
  sink,      \* per run: the calls made on the log stream, in order
  result,    \* per run: what Run returned
  faults     \* per run: read errors injected so far

regVars == <<shells, regs, panicked, stops>>
callVars == <<arg, ex, cmd, pc, started, result>>
procVars == <<wrote, todo, status, pipe, wopen, exited>>
pumpVars == <<ppc, rbuf, rerr, cur, faults>>
outVars == <<wg, mut, buff, sink>>
vars == <<regVars, callVars, procVars, pumpVars, outVars>>

NoCmd == [path |-> "", args |-> <<>>]

NoResult == <<"none", "none", <<>>>>

PerStream(v) == [s \in Streams |-> v]

InitRuns ==
  /\ arg = [r \in Runs |-> NoArg]
  /\ ex = [r \in Runs |-> "none"]
  /\ cmd = [r \in Runs |-> NoCmd]
  /\ pc = [r \in Runs |-> "idle"]
  /\ started = [r \in Runs |-> FALSE]
  /\ result = [r \in Runs |-> NoResult]
  /\ wrote = [r \in Runs |-> <<>>]
  /\ todo = [r \in Runs |-> <<>>]
  /\ status = [r \in Runs |-> 0]
  /\ pipe = [r \in Runs |-> PerStream(<<>>)]
  /\ wopen = [r \in Runs |-> PerStream(FALSE)]
  /\ exited = [r \in Runs |-> FALSE]
  /\ ppc = [r \in Runs |-> PerStream("none")]
  /\ rbuf = [r \in Runs |-> PerStream(<<>>)]
  /\ rerr = [r \in Runs |-> PerStream("nil")]
  /\ cur = [r \in Runs |-> PerStream(<<>>)]
  /\ faults = [r \in Runs |-> 0]
  /\ wg = [r \in Runs |-> 0]
  /\ mut = [r \in Runs |-> "free"]
  /\ buff = [r \in Runs |-> <<>>]
  /\ sink = [r \in Runs |-> <<>>]

\* The program as loaded: the registry empty, init() about to run.
Init ==
  /\ shells = <<>>
  /\ regs = InitList
  /\ panicked = FALSE
  /\ stops = <<>>
  /\ InitRuns

\* ------------------------------------------------------------- registry
\* Mutant: a registration under a name already present replaces the entry.
RegisterOverwrite(m, e) == [panic |-> FALSE, shells |-> (Name(e) :> e) @@ m]

\* register(i): panics on a name already present, else adds the entry.
Register(m, e) ==
  IF Name(e) \in DOMAIN m
  THEN [panic |-> TRUE, shells |-> m]
  ELSE [panic |-> FALSE, shells |-> (Name(e) :> e) @@ m]

\* Mutant: an unknown method falls back to the bash executor.
GetExecutorDefault(m, method) ==
  IF method \in DOMAIN m THEN m[method] ELSE m["bash"]

\* GetExecutor(method): the executor, or nil.
GetExecutor(m, method) ==
  IF method \in DOMAIN m THEN m[method] ELSE "nil"

\* init() and every use of the package wait for nothing else: Go runs init
\* to the end before any other code of the program can call the package.
Initialised == regs = <<>> /\ ~panicked

\* One register call of init().
InitRegister ==
  /\ regs # <<>>
  /\ ~panicked
  /\ LET got == Register(shells, Head(regs))
     IN  /\ panicked' = got.panic
         /\ shells' = got.shells
         /\ regs' = IF got.panic THEN regs ELSE Tail(regs)
  /\ UNCHANGED stops
  /\ UNCHANGED <<callVars, procVars, pumpVars, outVars>>


\* ------------------------------------------------------------- callers
\* A return of Run: (invocation error, process error, error buffer).
Return(r, inv, proc, text) ==
  /\ result' = [result EXCEPT ![r] = <<inv, proc, text>>]
  /\ pc' = [pc EXCEPT ![r] = "returned"]

\* A caller looks its executor up and, if there is one, calls Run on it
\* with arguments among A.
Call(r, A) ==
  /\ Initialised
  /\ pc[r] = "idle"
  /\ \E a \in A :
       /\ arg' = [arg EXCEPT ![r] = a]
       /\ ex' = [ex EXCEPT ![r] = GetExecutor(shells, a.method)]
       /\ pc' = [pc EXCEPT ![r] =
                   IF GetExecutor(shells, a.method) = "nil" THEN "notfound" ELSE "run"]
  /\ UNCHANGED <<regVars, cmd, started, result, procVars, pumpVars, outVars>>

\* Mutant: the check for an empty token vector is missing.
ExecRunNoEmptyCheck(r) ==
  /\ pc[r] = "run"
  /\ ex[r] = "Exec"
  /\ LET ss == Split(arg[r].line)
     IN  IF ss.err # "nil"
         THEN Return(r, ss.err, "nil", <<>>) /\ UNCHANGED cmd
         ELSE /\ cmd' = [cmd EXCEPT ![r] =
                          IF Len(ss.toks) = 0 THEN NoCmd
                          ELSE [path |-> Head(ss.toks), args |-> Tail(ss.toks)]]
              /\ pc' = [pc EXCEPT ![r] = "stdoutpipe"]
              /\ UNCHANGED result
  /\ UNCHANGED <<regVars, arg, ex, started, procVars, pumpVars, outVars>>

\* (*Exec).Run up to its call of execRunner.
ExecRun(r) ==
  /\ pc[r] = "run"
  /\ ex[r] = "Exec"
  /\ LET ss == Split(arg[r].line)
     IN  IF ss.err # "nil"
         THEN Return(r, ss.err, "nil", <<>>) /\ UNCHANGED cmd
         ELSE IF Len(ss.toks) = 0
         THEN Return(r, "No command defined", "nil", <<>>) /\ UNCHANGED cmd
         ELSE /\ cmd' = [cmd EXCEPT ![r] = [path |-> Head(ss.toks), args |-> Tail(ss.toks)]]
              /\ pc' = [pc EXCEPT ![r] = "stdoutpipe"]
              /\ UNCHANGED result
  /\ UNCHANGED <<regVars, arg, ex, started, procVars, pumpVars, outVars>>

\* (*Bash).getShell: bash if the search path has it, else sh, else an error.
getShell(avail) ==
  IF "bash" \in avail THEN [sh |-> "bash", err |-> "nil"]
  ELSE IF "sh" \in avail THEN [sh |-> "sh", err |-> "nil"]
  ELSE [sh |-> "", err |-> "Could not find bash or sh on path."]

\* Mutant: the line is run directly, without the shell.
BashRunDirect(r) ==
  /\ pc[r] = "run"
  /\ ex[r] = "Bash"
  /\ \E avail \in SUBSET {"bash", "sh"} :
       LET got == getShell(avail)
       IN  IF got.err # "nil"
           THEN Return(r, got.err, "nil", <<>>) /\ UNCHANGED cmd
           ELSE /\ cmd' = [cmd EXCEPT ![r] = [path |-> arg[r].line, args |-> <<>>]]
                /\ pc' = [pc EXCEPT ![r] = "stdoutpipe"]
                /\ UNCHANGED result
  /\ UNCHANGED <<regVars, arg, ex, started, procVars, pumpVars, outVars>>

\* (*Bash).Run up to its call of execRunner; avail is what the search path
\* holds at the time of the call.
BashRun(r) ==
  /\ pc[r] = "run"
  /\ ex[r] = "Bash"
  /\ \E avail \in SUBSET {"bash", "sh"} :
       LET got == getShell(avail)
       IN  IF got.err # "nil"
           THEN Return(r, got.err, "nil", <<>>) /\ UNCHANGED cmd
           ELSE /\ cmd' = [cmd EXCEPT ![r] = [path |-> got.sh, args |-> <<"-c", arg[r].line>>]]
                /\ pc' = [pc EXCEPT ![r] = "stdoutpipe"]
                /\ UNCHANGED result
  /\ UNCHANGED <<regVars, arg, ex, started, procVars, pumpVars, outVars>>

\* (*Builtin).Run up to its call of execRunner; os.Executable may fail.
BuiltinRun(r) ==
  /\ pc[r] = "run"
  /\ ex[r] = "Builtin"
  /\ \E ok \in BOOLEAN :
       IF ~ok
       THEN Return(r, "os.Executable failed", "nil", <<>>) /\ UNCHANGED cmd
       ELSE /\ cmd' = [cmd EXCEPT ![r] = [path |-> "self", args |-> <<"--exec", arg[r].line>>]]
            /\ pc' = [pc EXCEPT ![r] = "stdoutpipe"]
            /\ UNCHANGED result
  /\ UNCHANGED <<regVars, arg, ex, started, procVars, pumpVars, outVars>>

\* Stop() of each executor.
ExecStop == "nil"

BashStop == "nil"

BuiltinStop == "nil"

\* The Run calls on executor e that are in progress.
InProgress(e) ==
  {r \in Runs : ex[r] = e /\ pc[r] \notin {"idle", "notfound", "returned"}}

\* What a Stop call on executor e leaves on record: the error it returned
\* and the Run calls on e that were in progress when it was made.
StopRecord(e) ==
  [err |-> CASE e = "Exec" -> ExecStop
             [] e = "Bash" -> BashStop
             [] e = "Builtin" -> BuiltinStop,
   during |-> InProgress(e)]

\* Mutant: Stop kills the processes of the Run calls on its executor.
StopKills(e) ==
  /\ Initialised
  /\ Len(stops) < MaxStops
  /\ stops' = Append(stops, StopRecord(e))
  /\ exited' = [r \in Runs |-> exited[r] \/ (r \in InProgress(e) /\ started[r])]
  /\ status' = [r \in Runs |->
                  IF r \in InProgress(e) /\ started[r] /\ ~exited[r] THEN 137
                  ELSE status[r]]
  /\ UNCHANGED <<shells, regs, panicked, callVars, wrote, todo, pipe, wopen,
                 pumpVars, outVars>>

\* A caller calls Stop on executor e, at any time.
Stop(e) ==
  /\ Initialised
  /\ Len(stops) < MaxStops
  /\ stops' = Append(stops, StopRecord(e))
  /\ UNCHANGED <<shells, regs, panicked, callVars, procVars, pumpVars, outVars>>

\* ------------------------------------------------------------- execRunner
\* c.StdoutPipe(): the operating system may refuse the pipe.
RunnerStdoutPipe(r) ==
  /\ pc[r] = "stdoutpipe"
  /\ \E ok \in BOOLEAN :
       IF ok
       THEN pc' = [pc EXCEPT ![r] = "stderrpipe"] /\ UNCHANGED result
       ELSE Return(r, "stdout pipe failed", "nil", <<>>)
  /\ UNCHANGED <<regVars, arg, ex, cmd, started, procVars, pumpVars, outVars>>

\* c.StderrPipe().
RunnerStderrPipe(r) ==
  /\ pc[r] = "stderrpipe"
  /\ \E ok \in BOOLEAN :
       IF ok
       THEN pc' = [pc EXCEPT ![r] = "start"] /\ UNCHANGED result
       ELSE Return(r, "stderr pipe failed", "nil", <<>>)
  /\ UNCHANGED <<regVars, arg, ex, cmd, started, procVars, pumpVars, outVars>>

\* Mutant: only the stdout pump is launched.
LaunchStdoutPumpOnly(r) ==
  /\ wg' = [wg EXCEPT ![r] = 2]
  /\ ppc' = [ppc EXCEPT ![r]["stdout"] = "read"]
  /\ pc' = [pc EXCEPT ![r] = "wgwait"]
  /\ UNCHANGED result

\* What the code does once c.Start() has succeeded: wg.Add(2) and the two
\* go statements, then on to wg.Wait().
LaunchPumps(r) ==
  /\ wg' = [wg EXCEPT ![r] = 2]
  /\ ppc' = [ppc EXCEPT ![r] = PerStream("read")]
  /\ pc' = [pc EXCEPT ![r] = "wgwait"]
  /\ UNCHANGED result

\* Mutant: the pumps are launched before the error of c.Start() is looked at.
StartFailedAfterLaunch(r, err) ==
  /\ Return(r, err, "nil", <<>>)
  /\ wg' = [wg EXCEPT ![r] = 2]
  /\ ppc' = [ppc EXCEPT ![r] = PerStream("read")]

\* What the code does when c.Start() fails.
StartFailed(r, err) ==
  /\ Return(r, err, "nil", <<>>)
  /\ UNCHANGED <<wg, ppc>>

\* Mutant: c.Start() does not fail for an executable that cannot be found.
RunnerStartNoLookup(r) ==
  /\ pc[r] = "start"
  /\ \E ok \in BOOLEAN :
       IF ok
       THEN /\ started' = [started EXCEPT ![r] = TRUE]
            /\ wopen' = [wopen EXCEPT ![r] = PerStream(TRUE)]
            /\ LaunchPumps(r)
       ELSE /\ StartFailed(r, "fork/exec failed")
            /\ UNCHANGED <<started, wopen>>
  /\ UNCHANGED <<regVars, arg, ex, cmd, wrote, todo, status, pipe, exited,
                 rbuf, rerr, cur, faults, mut, buff, sink>>

\* c.Start(): fails when the executable is not found (or, whatever the
\* executable, when the operating system cannot create the process); on
\* success the child runs with the write ends of both pipes.
RunnerStart(r) ==
  /\ pc[r] = "start"
  /\ \E ok \in BOOLEAN :
       IF ok /\ cmd[r].path \in Startable
       THEN /\ started' = [started EXCEPT ![r] = TRUE]
            /\ wopen' = [wopen EXCEPT ![r] = PerStream(TRUE)]
            /\ LaunchPumps(r)
       ELSE /\ StartFailed(r, IF cmd[r].path \in Startable
                               THEN "fork/exec failed"
                               ELSE "executable file not found in $PATH")
            /\ UNCHANGED <<started, wopen>>
  /\ UNCHANGED <<regVars, arg, ex, cmd, wrote, todo, status, pipe, exited,
                 rbuf, rerr, cur, faults, mut, buff, sink>>

\* Mutant: the runner does not wait for the pumps.
RunnerJoinNoWait(r) ==
  /\ pc[r] = "wgwait"
  /\ pc' = [pc EXCEPT ![r] = "cwait"]
  /\ UNCHANGED <<regVars, arg, ex, cmd, started, result, procVars, pumpVars, outVars>>

\* Mutant: the runner waits for the process to exit, not for the pumps.
RunnerJoinOnExit(r) ==
  /\ pc[r] = "wgwait"
  /\ exited[r]
  /\ pc' = [pc EXCEPT ![r] = "cwait"]
  /\ UNCHANGED <<regVars, arg, ex, cmd, started, result, procVars, pumpVars, outVars>>

\* wg.Wait(): passes once the counter is zero.
RunnerJoin(r) ==
  /\ pc[r] = "wgwait"
  /\ wg[r] = 0
  /\ pc' = [pc EXCEPT ![r] = "cwait"]
  /\ UNCHANGED <<regVars, arg, ex, cmd, started, result, procVars, pumpVars, outVars>>

\* Mutant: the exit status is dropped.
CmdWaitDropped(code) == "nil"

\* The error c.Wait() returns for an exit status.
CmdWait(code) == IF code = 0 THEN "nil" ELSE "ExitError"

\* return nil, c.Wait(), buff.String(): c.Wait() blocks until the child
\* has exited.
RunnerWait(r) ==
  /\ pc[r] = "cwait"
  /\ exited[r]
  /\ Return(r, "nil", CmdWait(status[r]), buff[r])
  /\ UNCHANGED <<regVars, arg, ex, cmd, started, procVars, pumpVars, outVars>>


\* ------------------------------------------------------------- the child
Min(a, b) == IF a < b THEN a ELSE b

\* Bytes go from the child into the pipe of stream s: as many of `bytes`
\* as the pipe has room for, at least one; the rest stays to be written.
Transfer(r, s, bytes) ==
  LET k == Min(Len(bytes), PipeCap - Len(pipe[r][s]))
  IN  /\ k > 0
      /\ pipe' = [pipe EXCEPT ![r][s] = @ \o SubSeq(bytes, 1, k)]
      /\ todo' = [todo EXCEPT ![r] =
                    IF k = Len(bytes) THEN <<>>
                    ELSE <<s, SubSeq(bytes, k + 1, Len(bytes))>>]

\* The child issues its next write.  A write blocks while the pipe is full.
ProcWrite(r) ==
  /\ started[r]
  /\ ~exited[r]
  /\ todo[r] = <<>>
  /\ \E w \in ChildWrites(ex[r], arg[r], wrote[r]) :
       /\ wrote' = [wrote EXCEPT ![r] = Append(@, w)]
       /\ Transfer(r, w[1], w[2])
  /\ UNCHANGED <<regVars, callVars, status, wopen, exited, pumpVars, outVars>>

\* A write that did not fit goes on as the pipe is drained.
ProcResume(r) ==
  /\ started[r]
  /\ ~exited[r]
  /\ todo[r] # <<>>
  /\ Transfer(r, todo[r][1], todo[r][2])
  /\ UNCHANGED <<regVars, callVars, wrote, status, wopen, exited, pumpVars, outVars>>

\* The child exits once its last write is through.  Its own write ends
\* close; held are the streams whose write end a descendant keeps open.
ProcExit(r, Held) ==
  /\ started[r]
  /\ ~exited[r]
  /\ todo[r] = <<>>
  /\ ChildMayExit(ex[r], arg[r], wrote[r])
  /\ exited' = [exited EXCEPT ![r] = TRUE]
  /\ \E code \in ChildExits(ex[r], arg[r]) : status' = [status EXCEPT ![r] = code]
  /\ \E held \in Held : wopen' = [wopen EXCEPT ![r] = [s \in Streams |-> s \in held]]
  /\ UNCHANGED <<regVars, callVars, wrote, todo, pipe, pumpVars, outVars>>

\* A descendant that kept a write end open lets go of it.
OrphanClose(r, s) ==
  /\ exited[r]
  /\ wopen[r][s]
  /\ wopen' = [wopen EXCEPT ![r][s] = FALSE]
  /\ UNCHANGED <<regVars, callVars, wrote, todo, status, pipe, exited, pumpVars, outVars>>

\* ------------------------------------------------------------- logOutput
\* bytes.IndexByte: the first position of c in b, 0 when there is none.
IndexByte(b, c) ==
  IF \E i \in 1..Len(b) : b[i] = c
  THEN CHOOSE i \in 1..Len(b) : b[i] = c /\ \A j \in 1..(i - 1) : b[j] # c
  ELSE 0

\* ReadLine's trimming of a slice that ends in '\n': "\n" or "\r\n" goes.
DropEOL(line) ==
  IF Len(line) > 0 /\ line[Len(line)] = "LF"
  THEN IF Len(line) > 1 /\ line[Len(line) - 1] = "CR"
       THEN SubSeq(line, 1, Len(line) - 2)
       ELSE SubSeq(line, 1, Len(line) - 1)
  ELSE line

\* bufio.Reader.ReadLine on a reader holding b with pending error e, when
\* it can return without reading: [line, rest, err]; err is what logOutput
\* sees.  A full buffer without '\n' is returned as it is (isPrefix, which
\* logOutput ignores), a trailing '\r' staying behind for the next call.
ReadLine(b, e) ==
  LET i == IndexByte(b, "LF")
  IN  IF i > 0
      THEN [line |-> DropEOL(SubSeq(b, 1, i)), rest |-> SubSeq(b, i + 1, Len(b)),
            err |-> "nil"]
      ELSE IF e # "nil"
      THEN [line |-> b, rest |-> <<>>, err |-> IF Len(b) = 0 THEN e ELSE "nil"]
      ELSE IF b[Len(b)] = "CR"
      THEN [line |-> SubSeq(b, 1, Len(b) - 1), rest |-> <<"CR">>, err |-> "nil"]
      ELSE [line |-> b, rest |-> <<>>, err |-> "nil"]

\* ReadLine has to read from the pipe before it can return: the buffer
\* holds no '\n', no error is pending and the buffer is not full.
MustFill(b, e) ==
  /\ IndexByte(b, "LF") = 0
  /\ e = "nil"
  /\ Len(b) < BufSize

\* Mutant: wg.Done() runs at end-of-stream only, not on other read errors.
PumpNextDoneAtEOF(r, s, got) ==
  IF got.err # "nil"
  THEN /\ ppc' = [ppc EXCEPT ![r][s] = "done"]
       /\ wg' = [wg EXCEPT ![r] = IF got.err = "EOF" THEN @ - 1 ELSE @]
       /\ UNCHANGED cur
  ELSE /\ ppc' = [ppc EXCEPT ![r][s] = "out"]
       /\ cur' = [cur EXCEPT ![r][s] = got.line]
       /\ UNCHANGED wg

\* What logOutput does with ReadLine's answer: on an error it returns, its
\* deferred wg.Done() running; otherwise it goes on to call out.
PumpNext(r, s, got) ==
  IF got.err # "nil"
  THEN /\ ppc' = [ppc EXCEPT ![r][s] = "done"]
       /\ wg' = [wg EXCEPT ![r] = @ - 1]
       /\ UNCHANGED cur
  ELSE /\ ppc' = [ppc EXCEPT ![r][s] = "out"]
       /\ cur' = [cur EXCEPT ![r][s] = got.line]
       /\ UNCHANGED wg

\* r.ReadLine() with the reader holding b and e: it returns if it can, and
\* otherwise stays in its loop, about to read the pipe (again).
PumpScan(r, s, b, e) ==
  IF MustFill(b, e)
  THEN /\ rbuf' = [rbuf EXCEPT ![r][s] = b]
       /\ rerr' = [rerr EXCEPT ![r][s] = e]
       /\ UNCHANGED <<ppc, cur, wg>>
  ELSE /\ rbuf' = [rbuf EXCEPT ![r][s] = ReadLine(b, e).rest]
       /\ rerr' = [rerr EXCEPT ![r][s] = "nil"]
       /\ PumpNext(r, s, ReadLine(b, e))

\* One step of r.ReadLine().  When the buffer already holds a line it
\* returns without reading.  Otherwise Reader.fill makes one read of the
\* pipe into the free part of the buffer, after which ReadLine returns if
\* it can; the read blocks while the pipe is empty and has a writer, and
\* meets end-of-stream when the pipe is empty and has none.
PumpReadLine(r, s) ==
  /\ ppc[r][s] = "read"
  /\ IF ~MustFill(rbuf[r][s], rerr[r][s])
     THEN /\ PumpScan(r, s, rbuf[r][s], rerr[r][s])
          /\ UNCHANGED pipe
     ELSE IF pipe[r][s] # <<>>
     THEN LET n == Min(Len(pipe[r][s]), BufSize - Len(rbuf[r][s]))
          IN  /\ pipe' = [pipe EXCEPT ![r][s] = SubSeq(@, n + 1, Len(@))]
              /\ PumpScan(r, s, rbuf[r][s] \o SubSeq(pipe[r][s], 1, n), "nil")
     ELSE /\ ~wopen[r][s]
          /\ PumpScan(r, s, rbuf[r][s], "EOF")
          /\ UNCHANGED pipe
  /\ UNCHANGED <<regVars, callVars, wrote, todo, status, wopen, exited, faults,
                 mut, buff, sink>>

\* The read of the pipe fails with an error other than end-of-stream.
PumpFault(r, s) ==
  /\ ppc[r][s] = "read"
  /\ MustFill(rbuf[r][s], rerr[r][s])
  /\ faults[r] < MaxFaults
  /\ faults' = [faults EXCEPT ![r] = @ + 1]
  /\ PumpScan(r, s, rbuf[r][s], "read error")
  /\ UNCHANGED <<regVars, callVars, procVars, mut, buff, sink>>

\* Mutant: both pumps forward their lines to log.Warn.
SinkCallWarn(s, line) == <<"Warn", line>>

\* The sink call of out("%s", string(line)): log.Say for the stdout pump,
\* log.Warn for the stderr pump.
SinkCall(s, line) == <<IF s = "stdout" THEN "Say" ELSE "Warn", line>>

\* Mutant: the sink call is put in front of the earlier ones.
PumpOutFirst(r, s) ==
  /\ ppc[r][s] = "out"
  /\ sink' = [sink EXCEPT ![r] = <<SinkCall(s, cur[r][s])>> \o @]
  /\ ppc' = [ppc EXCEPT ![r][s] =
               IF s = "stderr" /\ arg[r].bufferr THEN "lock" ELSE "read"]
  /\ UNCHANGED <<regVars, callVars, procVars, rbuf, rerr, cur, faults, wg, mut, buff>>

\* out("%s", string(line)) up to its sink call.  The stderr closure goes
\* on to the buffer when bufferr is set.
PumpOut(r, s) ==
  /\ ppc[r][s] = "out"
  /\ sink' = [sink EXCEPT ![r] = Append(@, SinkCall(s, cur[r][s]))]
  /\ ppc' = [ppc EXCEPT ![r][s] =
               IF s = "stderr" /\ arg[r].bufferr THEN "lock" ELSE "read"]
  /\ UNCHANGED <<regVars, callVars, procVars, rbuf, rerr, cur, faults, wg, mut, buff>>

\* mut.Lock() in the stderr closure.
PumpLock(r, s) ==
  /\ ppc[r][s] = "lock"
  /\ mut[r] = "free"
  /\ mut' = [mut EXCEPT ![r] = s]
  /\ ppc' = [ppc EXCEPT ![r][s] = "append"]
  /\ UNCHANGED <<regVars, callVars, procVars, rbuf, rerr, cur, faults, wg, buff, sink>>

\* Mutant: the line is appended without the newline.
FprintfBare(b, line) == b \o line

\* fmt.Fprintf(buff, "%s\n", args...).
Fprintf(b, line) == b \o line \o <<"LF">>

\* Mutant: the closure returns without releasing the lock.
PumpAppendKeepLock(r, s) ==
  /\ ppc[r][s] = "append"
  /\ buff' = [buff EXCEPT ![r] = Fprintf(@, cur[r][s])]
  /\ ppc' = [ppc EXCEPT ![r][s] = "read"]
  /\ UNCHANGED <<regVars, callVars, procVars, rbuf, rerr, cur, faults, wg, mut, sink>>

\* Mutant: one buffer for all Run calls.
PumpAppendShared(r, s) ==
  /\ ppc[r][s] = "append"
  /\ buff' = [q \in Runs |-> Fprintf(buff[q], cur[r][s])]
  /\ mut' = [mut EXCEPT ![r] = "free"]
  /\ ppc' = [ppc EXCEPT ![r][s] = "read"]
  /\ UNCHANGED <<regVars, callVars, procVars, rbuf, rerr, cur, faults, wg, sink>>

\* The append, and the deferred mut.Unlock() as the closure returns.
PumpAppend(r, s) ==
  /\ ppc[r][s] = "append"
  /\ buff' = [buff EXCEPT ![r] = Fprintf(@, cur[r][s])]
  /\ mut' = [mut EXCEPT ![r] = "free"]
  /\ ppc' = [ppc EXCEPT ![r][s] = "read"]
  /\ UNCHANGED <<regVars, callVars, procVars, rbuf, rerr, cur, faults, wg, sink>>

\* ------------------------------------------------------------- the program

\* The steps of the goroutine that called Run.
RunnerStep(r) ==
  \/ ExecRun(r)
  \/ BashRun(r)
  \/ BuiltinRun(r)
  \/ RunnerStdoutPipe(r)
  \/ RunnerStderrPipe(r)
  \/ RunnerStart(r)
  \/ RunnerJoin(r)
  \/ RunnerWait(r)

\* The steps of the two logOutput goroutines.
PumpStep(r) ==
  \/ \E s \in Streams : PumpReadLine(r, s)
  \/ \E s \in Streams : PumpOut(r, s)
  \/ \E s \in Streams : PumpLock(r, s)
  \/ \E s \in Streams : PumpAppend(r, s)

\* One caller, any command, and everything the environment may do: a
\* descendant of the child keeping a pipe open, a read of a pipe failing.
Next ==
  \/ InitRegister
  \/ \E r \in Callers : Call(r, Args)
  \/ \E r \in Runs : RunnerStep(r)
  \/ \E r \in Runs : PumpStep(r)
  \/ \E r \in Runs : ProcWrite(r)
  \/ \E r \in Runs : ProcResume(r)
  \/ \E r \in Runs : ProcExit(r, SUBSET Streams)
  \/ \E r \in Runs, s \in Streams : OrphanClose(r, s)
  \/ \E r \in Runs, s \in Streams : PumpFault(r, s)

Spec == Init /\ [][Next]_vars

\* Several callers at once, with Stop calls among them.
NextConc ==
  \/ InitRegister
  \/ \E r \in Runs : Call(r, ConcArgs)
  \/ \E r \in Runs : RunnerStep(r)
  \/ \E r \in Runs : PumpStep(r)
  \/ \E r \in Runs : ProcWrite(r)
  \/ \E r \in Runs : ProcExit(r, {{}})
  \/ \E e \in Executors : Stop(e)

ConcSpec == Init /\ [][NextConc]_vars

\* The registry under every registration list: init() runs, and callers
\* look executors up once it is through.
RegInit ==
  /\ shells = <<>>
  /\ regs \in RegLists
  /\ panicked = FALSE
  /\ stops = <<>>
  /\ InitRuns

NextReg ==
  \/ InitRegister
  \/ \E r \in Runs : Call(r, Args)

RegSpec == RegInit /\ [][NextReg]_vars

\* A child that writes and exits, with no descendant left behind and pipes
\* whose reads do not fail; the goroutines of the program and the child are
\* scheduled fairly, and the sink's calls return.
NextLive ==
  \/ InitRegister
  \/ \E r \in Callers : Call(r, Args)
  \/ \E r \in Runs : RunnerStep(r)
  \/ \E r \in Runs : PumpStep(r)
  \/ \E r \in Runs : ProcWrite(r)
  \/ \E r \in Runs : ProcResume(r)
  \/ \E r \in Runs : ProcExit(r, {{}})

\* A logOutput goroutine, whichever step it is at.
Pump(r, s) ==
  PumpReadLine(r, s) \/ PumpOut(r, s) \/ PumpLock(r, s) \/ PumpAppend(r, s)

\* The child, whichever step it is at.
Child(r) == ProcWrite(r) \/ ProcResume(r) \/ ProcExit(r, {{}})

\* The Go scheduler runs every goroutine that can run, the sink's calls
\* return, and the operating system runs the child.
Fairness ==
  \A r \in Callers :
    /\ WF_vars(RunnerStep(r))
    /\ \A s \in Streams : WF_vars(Pump(r, s))
    /\ WF_vars(Child(r))

LiveSpec == Init /\ [][NextLive]_vars /\ Fairness

\* ------------------------------------------------------------- results
Returned(r) == pc[r] = "returned"

InvErr(r) == result[r][1]

ProcErr(r) == result[r][2]

ErrText(r) == result[r][3]

\* Run returned an invocation error that arose from a pipe.
PipeFailed(r) == InvErr(r) \in {"stdout pipe failed", "stderr pipe failed"}

\* ------------------------------------------------------------- what was written
\* The bytes of the writes ws that went to stream s, in order.
RECURSIVE BytesOf(_, _)
BytesOf(ws, s) ==
  IF ws = <<>> THEN <<>>
  ELSE (IF Head(ws)[1] = s THEN Head(ws)[2] ELSE <<>>) \o BytesOf(Tail(ws), s)

\* The bytes the child has put into the pipe of stream s so far.
Written(r, s) ==
  LET all == BytesOf(wrote[r], s)
      pending == IF todo[r] # <<>> /\ todo[r][1] = s THEN Len(todo[r][2]) ELSE 0
  IN  SubSeq(all, 1, Len(all) - pending)

\* The lines of a byte stream: each ends at a "\n", a "\r" before it
\* belonging to the terminator; bytes after the last "\n" are a last line.
RECURSIVE LinesOf(_)
LinesOf(b) ==
  IF b = <<>> THEN <<>>
  ELSE IF \A i \in 1..Len(b) : b[i] # "LF" THEN <<b>>
  ELSE LET i == CHOOSE k \in 1..Len(b) : b[k] = "LF" /\ \A j \in 1..(k - 1) : b[j] # "LF"
           n == IF i > 1 /\ b[i - 1] = "CR" THEN i - 2 ELSE i - 1
       IN  <<SubSeq(b, 1, n)>> \o LinesOf(SubSeq(b, i + 1, Len(b)))

\* The texts the sink received through `kind` ("Say" or "Warn"), in order.
RECURSIVE TextsOf(_, _)
TextsOf(calls, kind) ==
  IF calls = <<>> THEN <<>>
  ELSE (IF Head(calls)[1] = kind THEN <<Head(calls)[2]>> ELSE <<>>)
         \o TextsOf(Tail(calls), kind)

KindOf(s) == IF s = "stdout" THEN "Say" ELSE "Warn"

Contains(hay, needle) ==
  \E i \in 0..Len(hay) :
    i + Len(needle) <= Len(hay) /\ SubSeq(hay, i + 1, i + Len(needle)) = needle

\* The texts a caller may look for in what Run returns: every non-empty
\* part of a line the child may write, terminators apart.
Probes ==
  ({ SubSeq(LongText, i, j) : i \in 1..Len(LongText), j \in 1..Len(LongText) }
     \cup {<<"a">>, <<"n">>, <<"q">>}) \ {<<>>}

IsPrefix(p, q) == Len(p) <= Len(q) /\ SubSeq(q, 1, Len(p)) = p

RECURSIVE Concat(_)
Concat(ts) == IF ts = <<>> THEN <<>> ELSE Head(ts) \o Concat(Tail(ts))

\* A byte stream without its "\r" and "\n" bytes.
RECURSIVE NoEOL(_)
NoEOL(b) ==
  IF b = <<>> THEN <<>>
  ELSE (IF Head(b) \in {"CR", "LF"} THEN <<>> ELSE <<Head(b)>>) \o NoEOL(Tail(b))

\* items are, in order, consecutive pieces of the lines, in order: none
\* out of place, none twice, none skipped.
RECURSIVE Pieces(_, _)
Pieces(items, lines) ==
  IF items = <<>> THEN TRUE
  ELSE IF lines = <<>> THEN FALSE
  ELSE /\ IsPrefix(Head(items), Head(lines))
       /\ \/ Head(items) = Head(lines) /\ Pieces(Tail(items), Tail(lines))
          \/ Pieces(Tail(items),
                    <<SubSeq(Head(lines), Len(Head(items)) + 1, Len(Head(lines)))>>
                      \o Tail(lines))

\* C1: a Run call whose process was started and exited with a non-zero
\* status returns a non-nil processError and a nil invocationError.
C1_NonZeroExit ==
  \A r \in Runs :
    (Returned(r) /\ started[r] /\ status[r] # 0) =>
      (ProcErr(r) # "nil" /\ InvErr(r) = "nil")

\* A started process exited non-zero and its Run call returned.
C1_Witness ==
  \E r \in Runs : Returned(r) /\ started[r] /\ exited[r] /\ status[r] # 0

\* C4: a Run call that returns an invocation error returns no process
\* error and no text, launched no pump and made no sink call; after a pipe
\* failure the process was never started; pumps exist only in Run calls
\* whose process start succeeded.
C4_InvocationError ==
  \A r \in Runs :
    /\ (Returned(r) /\ InvErr(r) # "nil") =>
         /\ ProcErr(r) = "nil"
         /\ ErrText(r) = <<>>
         /\ \A s \in Streams : ppc[r][s] = "none"
         /\ sink[r] = <<>>
         /\ ~started[r]
    /\ (Returned(r) /\ PipeFailed(r)) => ~started[r]
    /\ (\E s \in Streams : ppc[r][s] # "none") => started[r]
    /\ (Returned(r) /\ started[r]) => InvErr(r) = "nil"

\* Run returned the error of a failed c.Start().
C4_Witness ==
  \E r \in Runs :
    /\ Returned(r)
    /\ cmd[r] # NoCmd
    /\ InvErr(r) = "executable file not found in $PATH"


\* C2 as stated, in a Run call without read errors: after a process that
\* started and exited 0, processError is nil and the sink has received
\* through Say exactly the lines written to stdout, in order.
C2_Original ==
  \A r \in Runs :
    (Returned(r) /\ started[r] /\ status[r] = 0 /\ faults[r] = 0) =>
      /\ ProcErr(r) = "nil"
      /\ TextsOf(sink[r], "Say") = LinesOf(Written(r, "stdout"))

\* C3 as stated, in a Run call without read errors: the returned text
\* contains a probe exactly when bufferr is set and the probe was written
\* to stderr; it is empty when bufferr is not set; the sink has received
\* through Warn the lines written to stderr.
C3_Original ==
  \A r \in Runs :
    (Returned(r) /\ started[r] /\ faults[r] = 0) =>
      /\ \A t \in Probes :
           Contains(ErrText(r), t) <=>
             (arg[r].bufferr /\ Contains(Written(r, "stderr"), t))
      /\ ~arg[r].bufferr => ErrText(r) = <<>>
      /\ TextsOf(sink[r], "Warn") = LinesOf(Written(r, "stderr"))


\* C6: in a Run call that started a process, the runner is past wg.Wait()
\* only when both pumps have signalled completion, has returned only after
\* the process exit was waited for, goes from the join to the wait to the
\* return in that order, and no sink call is made once Run has returned.
C6_JoinWaitReturn ==
  /\ [](\A r \in Runs :
          /\ (started[r] /\ pc[r] \in {"cwait", "returned"}) =>
               (wg[r] = 0 /\ \A s \in Streams : ppc[r][s] = "done")
          /\ (started[r] /\ Returned(r)) => exited[r])
  /\ [][\A r \in Runs :
          /\ (pc[r] = "wgwait" /\ pc'[r] # "wgwait") => pc'[r] = "cwait"
          /\ (pc[r] = "cwait" /\ pc'[r] # "cwait") => pc'[r] = "returned"
          /\ Returned(r) => (Returned(r)' /\ sink'[r] = sink[r])]_vars

\* Run has returned after its pumps delivered lines of both streams.
C6_Witness ==
  \E r \in Runs :
    /\ Returned(r)
    /\ started[r]
    /\ TextsOf(sink[r], "Say") # <<>>
    /\ TextsOf(sink[r], "Warn") # <<>>

\* C7: whatever the exit status, what the sink has received for a stream is
\* in the order the process wrote it: the texts delivered, end to end, are
\* a beginning of the text written, and (no read error having cut a line)
\* they are consecutive pieces of the lines written, in the order written.
C7_StreamOrder ==
  \A r \in Runs, s \in Streams :
    /\ IsPrefix(NoEOL(Concat(TextsOf(sink[r], KindOf(s)))), NoEOL(Written(r, s)))
    /\ faults[r] = 0 =>
         Pieces(TextsOf(sink[r], KindOf(s)), LinesOf(Written(r, s)))

\* The process wrote a stdout line and then a stderr line, and the sink
\* received the stderr line first: the order between streams is not kept.
C7_Witness ==
  \E r \in Runs :
    /\ wrote[r] = << <<"stdout", <<"a", "LF">>>>, <<"stderr", <<"a", "LF">>>> >>
    /\ sink[r] = << <<"Warn", <<"a">>>>, <<"Say", <<"a">>>> >>
    /\ Returned(r)
    /\ status[r] # 0


\* C5: with bounded pipes, fair scheduling and a sink whose calls return, a
\* started process that writes and exits never deadlocks against the
\* runner: every write it is in eventually completes, and Run eventually
\* returns.
C5_NoPipeDeadlock ==
  \A r \in Runs :
    /\ started[r] ~> Returned(r)
    /\ (todo[r] # <<>>) ~> (todo[r] = <<>>)

\* The child is blocked in a write to stdout, whose pipe is full, while it
\* has written nothing to stderr.
C5_Witness ==
  \E r \in Runs :
    /\ todo[r] # <<>>
    /\ todo[r][1] = "stdout"
    /\ Len(pipe[r]["stdout"]) = PipeCap
    /\ Written(r, "stderr") = <<>>
    /\ ppc[r]["stderr"] = "read"

\* C8: register with a name already present panics, leaving the entry as
\* it was, and nothing runs after the panic; as all registration is done by
\* init(), no Run or GetExecutor call has been made when it happens.
C8_DuplicatePanics ==
  /\ [](panicked =>
          /\ regs # <<>>
          /\ Name(Head(regs)) \in DOMAIN shells
          /\ \A r \in Runs : pc[r] = "idle" /\ ex[r] = "none")
  /\ [][/\ (~panicked /\ regs # <<>> /\ Name(Head(regs)) \in DOMAIN shells)
             => (panicked' /\ shells' = shells)
        /\ panicked => UNCHANGED vars]_vars

\* init() has registered Exec and Bash and panics on a second Exec.
C8_Witness ==
  /\ panicked
  /\ regs = <<"Exec">>
  /\ shells = ("exec" :> "Exec") @@ ("bash" :> "Bash")

\* The registry as the claim gives it.
ThreeExecutors == ("exec" :> "Exec") @@ ("bash" :> "Bash") @@ ("builtin" :> "Builtin")

\* C9: once init() is through, the registry maps exactly "exec", "bash" and
\* "builtin" to their executors and no step of any caller (lookup, Run,
\* Stop) changes it; GetExecutor returns the executor registered under the
\* name, and nil for any other name.
C9_RegistryFixed ==
  /\ [](Initialised => shells = ThreeExecutors)
  /\ [](\A r \in Runs :
          ex[r] # "none" =>
            ex[r] = CASE arg[r].method = "exec" -> "Exec"
                      [] arg[r].method = "bash" -> "Bash"
                      [] arg[r].method = "builtin" -> "Builtin"
                      [] OTHER -> "nil")
  /\ [][Initialised => (Initialised' /\ shells' = shells)]_vars

\* Two callers at once, one in a Run with its pumps going, the other told
\* that there is no such executor, and a Stop call made.
C9_Witness ==
  \E r, q \in Runs :
    /\ ex[r] = "Bash"
    /\ pc[r] = "wgwait"
    /\ sink[r] # <<>>
    /\ ex[q] = "nil"
    /\ stops # <<>>

\* C10: under the exec strategy, a line the tokenizer fails on and a line
\* without tokens make Run return an invocation error ("No command
\* defined" for the latter) with no process built or started; any other
\* line builds the process from token 0 and the remaining tokens.
C10_ExecTokens ==
  \A r \in Runs :
    (ex[r] = "Exec" /\ pc[r] # "run") =>
      /\ arg[r].line = "'" =>
           (Returned(r) /\ InvErr(r) # "nil" /\ cmd[r] = NoCmd /\ ~started[r])
      /\ arg[r].line = "" =>
           /\ Returned(r)
           /\ InvErr(r) = "No command defined"
           /\ cmd[r] = NoCmd
           /\ ~started[r]
      /\ arg[r].line = "prog a" => cmd[r] = [path |-> "prog", args |-> <<"a">>]
      /\ arg[r].line = "nosuch" => cmd[r] = [path |-> "nosuch", args |-> <<>>]

\* Exec.Run has returned "No command defined".
C10_Witness ==
  \E r \in Runs :
    /\ ex[r] = "Exec"
    /\ Returned(r)
    /\ arg[r].line = ""
    /\ InvErr(r) = "No command defined"

\* C11: under the exec strategy, a line whose first token names an
\* executable that cannot be found never gets a process or a pump: the Run
\* call goes no further than c.Start() and returns a non-nil invocation
\* error, a nil process error and an empty text.
C11_ExecNotFound ==
  \A r \in Runs :
    (ex[r] = "Exec" /\ arg[r].line = "nosuch") =>
      /\ pc[r] \in {"run", "stdoutpipe", "stderrpipe", "start", "returned"}
      /\ ~started[r]
      /\ \A s \in Streams : ppc[r][s] = "none"
      /\ Returned(r) =>
           (InvErr(r) # "nil" /\ ProcErr(r) = "nil" /\ ErrText(r) = <<>>)

\* Exec.Run has returned the error c.Start() gave for the missing program.
C11_Witness ==
  \E r \in Runs :
    /\ ex[r] = "Exec"
    /\ arg[r].line = "nosuch"
    /\ cmd[r] = [path |-> "nosuch", args |-> <<>>]
    /\ Returned(r)
    /\ InvErr(r) = "executable file not found in $PATH"

\* C12: under the bash strategy with a shell found, a line naming a
\* command that does not exist is handed to the shell ("-c", line), so
\* c.Start() never fails for a missing executable; once the shell has been
\* started, Run returns a nil invocation error and a non-nil process
\* error, the shell having exited 127.
C12_BashNotFound ==
  \A r \in Runs :
    (ex[r] = "Bash" /\ arg[r].line = "nosuch" /\ cmd[r] # NoCmd) =>
      /\ cmd[r].path \in {"bash", "sh"}
      /\ cmd[r].args = <<"-c", "nosuch">>
      /\ Returned(r) => InvErr(r) # "executable file not found in $PATH"
      /\ (Returned(r) /\ started[r]) =>
           (InvErr(r) = "nil" /\ ProcErr(r) # "nil" /\ status[r] = 127)

\* Bash.Run has returned after the shell reported the unknown command on
\* its stderr and exited.
C12_Witness ==
  \E r \in Runs :
    /\ ex[r] = "Bash"
    /\ arg[r].line = "nosuch"
    /\ Returned(r)
    /\ started[r]
    /\ TextsOf(sink[r], "Warn") = << <<"n">> >>
    /\ ProcErr(r) = "ExitError"

\* C13: Stop() of every strategy returns nil and changes nothing: a Stop
\* call leaves the registry, every Run call, every process and every pump
\* as they were, so a Run call during which Stop was called still returns
\* only after its process exited by itself, with that exit's error.
C13_StopNoOp ==
  /\ [](\A i \in 1..Len(stops) : stops[i].err = "nil")
  /\ [](\A r \in Runs :
          (Returned(r) /\ started[r]) =>
            /\ exited[r]
            /\ status[r] \in ChildExits(ex[r], arg[r])
            /\ result[r] = <<"nil", CmdWait(status[r]), buff[r]>>)
  /\ [][stops' # stops =>
          UNCHANGED <<shells, regs, panicked, callVars, procVars, pumpVars, outVars>>]_vars

\* Stop was called on the bash executor while a Run call on it was in
\* progress, and that Run call has since returned its process's exit error
\* and the line the process wrote to stderr.
C13_Witness ==
  \E r \in Runs, i \in 1..Len(stops) :
    /\ r \in stops[i].during
    /\ ex[r] = "Bash"
    /\ Returned(r)
    /\ ProcErr(r) = "ExitError"
    /\ ErrText(r) = <<"n", "LF">>

\* C14 as stated, in a Run call without read errors: at every moment the
\* texts a pump has emitted are, one emit per line and each the whole
\* line, the first of the lines written to its stream, whatever their
\* length; and a captured text returned holds each stderr line as one
\* entry.
C14_Original ==
  \A r \in Runs :
    faults[r] = 0 =>
      /\ \A s \in Streams :
           IsPrefix(TextsOf(sink[r], KindOf(s)), LinesOf(Written(r, s)))
      /\ (Returned(r) /\ started[r] /\ arg[r].bufferr) =>
           LinesOf(ErrText(r)) = LinesOf(Written(r, "stderr"))

\* C15: the lock is held exactly by a pump that is in its append, so at
\* most one append is in progress at a time and the lock is free after
\* each; once the runner is past wg.Wait(), where it reads the buffer, no
\* pump is in an append or has one to come, the lock is free, and the
\* buffer changes no more; the text returned is the buffer as it then is.
C15_BufferExclusive ==
  /\ [](\A r \in Runs :
          /\ \A s \in Streams : (mut[r] = s) <=> (ppc[r][s] = "append")
          /\ Cardinality({s \in Streams : ppc[r][s] = "append"}) <= 1
          /\ pc[r] \in {"cwait", "returned"} =>
               /\ mut[r] = "free"
               /\ started[r] => \A s \in Streams : ppc[r][s] = "done"
          /\ (Returned(r) /\ started[r]) => ErrText(r) = buff[r])
  /\ [][\A r \in Runs :
          /\ pc[r] \in {"cwait", "returned"} => buff'[r] = buff[r]
          /\ buff'[r] # buff[r] => (mut[r] # "free" /\ mut'[r] = "free")]_vars

\* The stderr pump holds the lock for its second append while the stdout
\* pump is about to make a sink call.
C15_Witness ==
  \E r \in Runs :
    /\ ppc[r]["stderr"] = "append"
    /\ mut[r] = "stderr"
    /\ buff[r] # <<>>
    /\ ppc[r]["stdout"] = "out"

\* C16: every sink call is made by one pump with the line it has just
\* read, through Say by the stdout pump and through Warn by the stderr
\* pump, and leaves the buffer alone; the buffer grows only by the stderr
\* pump appending its line, and only when bufferr is set.  So what Say
\* received comes from stdout, what Warn and the buffer received from
\* stderr, and a process that wrote nothing to stderr leaves Warn uncalled
\* and the returned text empty.
C16_StreamRouting ==
  /\ [](\A r \in Runs :
          /\ \A i \in 1..Len(sink[r]) : sink[r][i][1] \in {"Say", "Warn"}
          /\ IsPrefix(NoEOL(Concat(TextsOf(sink[r], "Say"))), NoEOL(Written(r, "stdout")))
          /\ IsPrefix(NoEOL(Concat(TextsOf(sink[r], "Warn"))), NoEOL(Written(r, "stderr")))
          /\ IsPrefix(NoEOL(buff[r]), NoEOL(Written(r, "stderr")))
          /\ Written(r, "stdout") = <<>> => TextsOf(sink[r], "Say") = <<>>
          /\ Written(r, "stderr") = <<>> =>
               (TextsOf(sink[r], "Warn") = <<>> /\ buff[r] = <<>>)
          /\ ~arg[r].bufferr => buff[r] = <<>>)
  /\ [][\A r \in Runs :
          /\ sink'[r] # sink[r] =>
               /\ buff'[r] = buff[r]
               /\ \E s \in Streams :
                    /\ ppc[r][s] = "out"
                    /\ ppc'[r][s] # "out"
                    /\ sink'[r] = Append(sink[r], <<KindOf(s), cur[r][s]>>)
          /\ buff'[r] # buff[r] =>
               /\ arg[r].bufferr
               /\ ppc[r]["stderr"] = "append"
               /\ ppc'[r]["stderr"] # "append"
               /\ buff'[r] = buff[r] \o cur[r]["stderr"] \o <<"LF">>]_vars

\* With bufferr set, a process wrote two lines to stdout and nothing to
\* stderr; Run has returned, Say has received them and the text is empty.
C16_Witness ==
  \E r \in Runs :
    /\ arg[r].bufferr
    /\ Returned(r)
    /\ Written(r, "stderr") = <<>>
    /\ TextsOf(sink[r], "Say") = << <<"a">>, <<"a">> >>
    /\ TextsOf(sink[r], "Warn") = <<>>
    /\ ErrText(r) = <<>>

\* The texts ts, each followed by one newline, end to end.
RECURSIVE JoinLines(_)
JoinLines(ts) ==
  IF ts = <<>> THEN <<>> ELSE Head(ts) \o <<"LF">> \o JoinLines(Tail(ts))

\* The number of newlines in the text b.
NewlinesIn(b) == Cardinality({i \in 1..Len(b) : b[i] = "LF"})

\* C17: with bufferr set, the text Run returns is the texts the stderr
\* pump passed to Warn, in order, each followed by exactly one newline, so
\* it holds as many newlines as Warn calls were made; while the pumps run
\* the buffer is that text for the Warn calls made so far, the last one
\* missing while its append is still to come.
C17_NewlineJoined ==
  \A r \in Runs :
    arg[r].bufferr =>
      LET warned == TextsOf(sink[r], "Warn")
      IN  /\ (Returned(r) /\ started[r]) =>
               /\ ErrText(r) = JoinLines(warned)
               /\ NewlinesIn(ErrText(r)) = Len(warned)
          /\ buff[r] = IF ppc[r]["stderr"] \in {"lock", "append"}
                       THEN JoinLines(SubSeq(warned, 1, Len(warned) - 1))
                       ELSE JoinLines(warned)

\* Run has returned a text of three entries, the last of them an empty
\* text followed by its newline.
C17_Witness ==
  \E r \in Runs :
    /\ arg[r].bufferr
    /\ Returned(r)
    /\ Len(TextsOf(sink[r], "Warn")) = 3
    /\ TextsOf(sink[r], "Warn")[3] = <<>>
    /\ NewlinesIn(ErrText(r)) = 3
    /\ SubSeq(ErrText(r), Len(ErrText(r)) - 1, Len(ErrText(r))) = <<"LF", "LF">>

\* C18: the barrier counts the pumps that have not exited: it is 0 before
\* the launch, 2 at the launch and never outside 0..2; it changes only by
\* the launch and by a pump exiting, which takes it down by one, and a
\* pump that has exited stays so, at end-of-stream and after a read error
\* alike.  A read error is not reported: a Run call whose process started
\* returns a nil invocation error, and the pump that met the error has
\* delivered everything it emitted before.
C18_BarrierOncePerPump ==
  /\ [](\A r \in Runs :
          /\ wg[r] \in 0..2
          /\ wg[r] = Cardinality({s \in Streams : ppc[r][s] \notin {"none", "done"}})
          /\ (Returned(r) /\ started[r]) => (InvErr(r) = "nil" /\ wg[r] = 0))
  /\ [][\A r \in Runs :
          /\ \A s \in Streams : ppc[r][s] = "done" => ppc'[r][s] = "done"
          /\ wg'[r] # wg[r] =>
               \/ /\ wg[r] = 0 /\ wg'[r] = 2
                  /\ \A s \in Streams : ppc[r][s] = "none" /\ ppc'[r][s] = "read"
               \/ /\ wg'[r] = wg[r] - 1
                  /\ \E s \in Streams :
                       /\ ppc[r][s] = "read" /\ ppc'[r][s] = "done"
                       /\ \A u \in Streams \ {s} : ppc'[r][u] = ppc[r][u]
          /\ \A s \in Streams :
               (ppc[r][s] # "done" /\ ppc'[r][s] = "done") => wg'[r] = wg[r] - 1]_vars

\* A read of the stdout pipe failed after the pump had emitted a line and
\* before it got the second line written; Run has returned all the same.
C18_Witness ==
  \E r \in Runs :
    /\ faults[r] = 1
    /\ Returned(r)
    /\ InvErr(r) = "nil"
    /\ TextsOf(sink[r], "Say") = << <<"a">> >>
    /\ Written(r, "stdout") = <<"a", "LF", "a", "LF">>

\* The streams of Run call r that have not reached end-of-stream: a write
\* end is open, or bytes are still in the pipe.
Unended(r) == {s \in Streams : wopen[r][s] \/ pipe[r][s] # <<>>}

\* C19: a Run call that started its process gets past the join, to the
\* collection of the exit status and to its return, only when every
\* stream has reached end-of-stream or met a read error: as long as a
\* stream without read error is held open, by the process or by a
\* descendant of a process that has exited, the Run call stays at the
\* join, and the join is left by no other way.
C19_BlocksWhileHeld ==
  /\ [](\A r \in Runs :
          started[r] =>
            /\ pc[r] \in {"wgwait", "cwait", "returned"}
            /\ pc[r] \in {"cwait", "returned"} =>
                 Cardinality(Unended(r)) <= faults[r]
            /\ (faults[r] = 0 /\ Unended(r) # {}) =>
                 (pc[r] = "wgwait" /\ result[r] = NoResult))
  /\ [][\A r \in Runs :
          (pc[r] = "wgwait" /\ pc'[r] # "wgwait") =>
            (pc'[r] = "cwait" /\ wg[r] = 0)]_vars

\* The process has exited and its stderr has ended, but a descendant holds
\* the write end of stdout, on which nothing is left to read: the stdout
\* pump is in its read and the Run call at the join.
C19_Witness ==
  \E r \in Runs :
    /\ exited[r]
    /\ wopen[r]["stdout"]
    /\ pipe[r]["stdout"] = <<>>
    /\ ppc[r]["stdout"] = "read"
    /\ ppc[r]["stderr"] = "done"
    /\ faults[r] = 0
    /\ pc[r] = "wgwait"

\* What belongs to Run call r alone: its position and result, its
\* process, its pumps, its barrier, lock and buffer, and its sink calls.
OwnState(r) ==
  <<pc[r], result[r], started[r], wrote[r], todo[r], status[r], exited[r],
    pipe[r], wopen[r], ppc[r], rbuf[r], cur[r], wg[r], mut[r], buff[r], sink[r]>>

\* C20: Run calls going on at the same time, on the same executor or not,
\* share nothing: a step that changes what belongs to one call leaves
\* what belongs to the others as it was; what a call returns is made of
\* its own process alone, the text being the lines its own stderr pump
\* passed to Warn (empty without bufferr) and the process error that of
\* its own exit status; and a call whose own pumps are done passes its
\* join, and one whose own process has exited returns, whatever the state
\* of the other calls.
C20_RunsIndependent ==
  /\ [](\A r \in Runs :
          /\ (Returned(r) /\ started[r]) =>
               /\ ErrText(r) = IF arg[r].bufferr
                                THEN JoinLines(TextsOf(sink[r], "Warn"))
                                ELSE <<>>
               /\ JoinLines(TextsOf(sink[r], "Warn")) = Written(r, "stderr")
               /\ ProcErr(r) = CmdWait(status[r])
               /\ status[r] \in ChildExits(ex[r], arg[r])
          /\ (pc[r] = "wgwait" /\ wg[r] = 0) => ENABLED RunnerJoin(r)
          /\ (pc[r] = "cwait" /\ exited[r]) => ENABLED RunnerWait(r))
  /\ [][\A r, q \in Runs :
          (r # q /\ OwnState(r)' # OwnState(r)) => OwnState(q)' = OwnState(q)]_vars

\* Two Run calls on the bash executor, both with bufferr set: one has
\* returned its process's exit error and stderr line, while the other's
\* process, which is to write nothing, has its two pumps still going.
C20_Witness ==
  \E r, q \in Runs :
    /\ r # q
    /\ ex[r] = "Bash" /\ ex[q] = "Bash"
    /\ arg[r].bufferr /\ arg[q].bufferr
    /\ Returned(r)
    /\ ErrText(r) = <<"n", "LF">>
    /\ ProcErr(r) = "ExitError"
    /\ arg[q].line = ""
    /\ pc[q] = "wgwait"
    /\ wg[q] = 2
    /\ buff[q] = <<>>

=============================================================================
